---- MODULE Spec2Model ----
(***************************************************************************)
(* The workflow scheduling core of forge:                                  *)
(*   SolutionArchitect.execute_workflow / _execute_step                    *)
(*       (src/src/forge/agents/solution_architect.py)                      *)
(*   WorkflowDefinition.get_ready_steps / get_step / resolve_input         *)
(*       (src/src/forge/schemas/workflow.py)                               *)
(*   CostTracker (src/src/forge/utils/cost_tracker.py)                     *)
(*   SubagentOrchestrator (src/src/forge/agents/subagent.py)               *)
(*   Forge.run (src/src/forge/orchestrator.py)                             *)
(*                                                                         *)
(* A step is known by its position in workflow.steps (ids are unique).     *)
(* Money is counted in micro-dollars, so that the per-1K-token prices      *)
(* 0.003 and 0.015 USD are 3 and 15 per token, and is held in floats of    *)
(* MantissaBits bits that round as Python's do.  Strings are symbolic      *)
(* constants ("stuck", "budget", "exc_text", ...).  The control loop is    *)
(* cut at the awaits of the code: between two awaits the coroutine runs    *)
(* alone; while it awaits (gather, or one sequential step) the runner      *)
(* calls in flight finish in any order.                                    *)
(***************************************************************************)
EXTENDS Integers, Sequences, FiniteSets, TLC

(* ------------------------------ bounds --------------------------------- *)
\* number of steps of the workflow
NumSteps == 3
\* largest number of ids in one step's depends_on
MaxDeps == 2
\* number of distinct parallel_group tags a workflow may use
NumGroups == 2
\* largest max_parallel_steps tried (0 .. MaxCap)
MaxCap == 2
\* largest retry_count tried
MaxRetry == 1
\* largest number of ids in one depends_on in the runs checked for liveness
LiveMaxDeps == 1
\* number of distinct parallel_group tags in the runs checked for liveness
LiveGroups == 1
\* largest number of execute_workflow calls made on one workflow
MaxCalls == 2
\* tokens_used reported by a runner call that used tokens
TokensUsed == 5
\* settings.budget_usd, in micro-dollars
BudgetMicro == 36
\* the most entries a ledger driven directly is given
MaxEntries == 3
\* the bits of a float's significand (Python's floats have 53)
MantissaBits == 5
\* the subtasks given to the SubagentOrchestrator
NumTasks == 3
\* the largest max_concurrent passed to spawn_parallel
MaxConcurrent == 2

(* ------------------------- program constants --------------------------- *)
\* CostTracker.PRICING["claude-sonnet-4"]["input"], micro-dollars per token
InputPrice == 3
\* CostTracker.PRICING["claude-sonnet-4"]["output"], micro-dollars per token
OutputPrice == 15
\* spawn_parallel's default max_concurrent
DefaultMaxConcurrent == 5
\* PRICING["claude-opus-4"], in micro-dollars per token
OpusInputPrice == 15
OpusOutputPrice == 75

Steps == 1..NumSteps
\* ids a depends_on entry may hold; NumSteps + 1 names no step of the workflow
DepIds == 1..(NumSteps + 1)
\* parallel_group = None
NoGroup == 0
GroupTags == 1..NumGroups
\* "no step": get_step's None, failed_step_id's None
None == 0

VARIABLES
    \* the WorkflowDefinition as submitted (never written by the scheduler)
    depends_on,          \* step -> set of ids
    parallel_group,      \* step -> NoGroup or a tag
    retry_count,         \* step -> Nat
    inputs,              \* step -> the value of its one input, or NoInput
    \* fields of the steps, for the steps whose field is not the default
    id,                  \* step -> the text of WorkflowStep.id
    findings,            \* step -> WorkflowStep.findings
    change_plan,         \* step -> WorkflowStep.change_plan
    eval_result,         \* step -> WorkflowStep.eval_result
    outputs,             \* step -> WorkflowStep.outputs, a mapping from keys
    max_parallel_steps,
    stop_on_failure,
    \* step fields written by the scheduler
    status,              \* step -> StepStatus
    error_message,       \* step -> symbolic text
    retry_attempts,      \* step -> Nat (WorkflowStep.retry_attempts)
    result,              \* step -> WorkflowStep.result
    resolved_inputs,     \* step -> the resolved input put in its Task context
    \* workflow fields written by the scheduler
    wf_status,
    wf_error_message,
    failed_step_id,
    \* the WorkflowExecutionResult under construction
    result_success,
    result_error,
    \* CostTracker.entries: the list of CostEntry records
    entries,
    budget_usd,          \* CostTracker.budget_usd, in micro-dollars
    persist_path,        \* whether the tracker was given a persist_path
    alerts,              \* CostTracker.alerts: the threshold of each alert
    triggered_thresholds, \* CostTracker._triggered_thresholds
    persisted,           \* the file at persist_path
    alert_log,           \* every alert produced by any tracker on the path
    loaded,              \* the number of entries the tracker's _load read
    record_calls,        \* the record calls made on the tracker
    \* position of the execute_workflow coroutine
    pc,
    group_queue,         \* parallel groups of this pass not yet dispatched
    group_steps,         \* the group being gathered
    started,             \* how many of its tasks have begun running
    task_result,         \* step -> what its task handed to gather
    seq_queue,           \* sequential_steps[:max_parallel_steps] still to run
    inflight,            \* steps whose agent.execute call is in progress
    exit,                \* how execute_workflow left: none / returned / raised
    calls,               \* execute_workflow calls begun on this workflow
    \* a call of resolve_input made by the workflow's owner
    argument,            \* the value passed
    returned,            \* the value returned
    \* SubagentOrchestrator
    subtasks,            \* spawn_with_dependencies: the list of subtask ids
    dependencies,        \* spawn_with_dependencies: id -> the ids listed for it
    completed,           \* spawn_with_dependencies: the set completed
    results,             \* spawn_with_dependencies: the list results
    caller,              \* who awaits spawn_parallel: "none", "user", "deps"
    batch,               \* spawn_parallel: the list of subtask ids passed
    max_concurrent,      \* spawn_parallel: the semaphore's initial value
    task_state,          \* id -> where its limited_spawn coroutine is
    final_results,       \* spawn_parallel: the list returned
    spc,                 \* where the orchestrator's caller is
    spawned,             \* id -> the spawn calls made for it
    \* Forge.run
    agents,              \* the names ALL_AGENTS holds
    run_steps,           \* steps: the agent names _decompose_goal returned
    position,            \* the place in steps the for loop is at
    workflow_result,     \* the WorkflowResult being filled
    rpc,                 \* where run is: idle, loop, await, returned, raised
    over_after,          \* is_over_budget() after each step executed
    \* observation only (never read by an action's guard or update)
    outcome,             \* step -> how its runner call ended
    invocations,         \* step -> number of agent.execute calls made for it
    over_at_batch_end,   \* a batch has completed with spend >= budget
    failed_at_batch_end, \* a batch has completed with a step in status FAILED
    ready_at_pass,       \* the ready steps the pass in progress began with
    dispatch_order,      \* the steps dispatched so far, in dispatch order
    first_end            \* the statuses the first call ended with

definition == <<depends_on, parallel_group, retry_count, inputs, id, findings,
               change_plan, eval_result, outputs, max_parallel_steps,
               stop_on_failure>>
cfg == <<definition, budget_usd>>
ledger == <<persist_path, alerts, triggered_thresholds, persisted, alert_log,
           loaded, record_calls>>
stepv == <<status, error_message, retry_attempts, result, resolved_inputs>>
wfv == <<wf_status, wf_error_message, failed_step_id>>
resv == <<result_success, result_error>>
ctl == <<pc, group_queue, group_steps, started, task_result, seq_queue, inflight,
        exit, calls>>
obs == <<outcome, invocations, over_at_batch_end, failed_at_batch_end,
        ready_at_pass, dispatch_order, first_end>>
\* what the scheduler neither reads nor writes
subv == <<subtasks, dependencies, completed, results, caller, batch,
          max_concurrent, task_state, final_results, spc, spawned>>
runv == <<agents, run_steps, position, workflow_result, rpc, over_after>>
aux == <<argument, returned, subv, runv>>
vars == <<cfg, stepv, wfv, resv, entries, ledger, ctl, obs, aux>>

(* --------------------------- pure helpers ------------------------------ *)
\* float arithmetic: amounts are micro-dollars held in floats whose
\* significand has MantissaBits bits; every operation rounds its exact result
\* to the nearest such float, ties to the even significand
RECURSIVE Pow2(_)
Pow2(n) == IF n = 0 THEN 1 ELSE 2 * Pow2(n - 1)

\* the integers below FloatLimit are floats
FloatLimit == Pow2(MantissaBits)

\* the spacing of the floats around the magnitude x >= 0
RECURSIVE Ulp(_)
Ulp(x) == IF x < FloatLimit THEN 1 ELSE 2 * Ulp(x \div 2)

\* the float nearest to x >= 0
Nearest(x) ==
    LET q == Ulp(x)
        r == x % q
        lo == x - r
    IN  IF 2 * r < q THEN lo
        ELSE IF 2 * r > q THEN lo + q
        ELSE IF (lo \div q) % 2 = 0 THEN lo ELSE lo + q

\* the float nearest to x, as a function, so that a sum is rounded once
\* however often its value is read
FloatOf == [x \in Int |-> IF x < 0 THEN 0 - Nearest(0 - x) ELSE Nearest(x)]

\* the float nearest to x
Float(x) == FloatOf[x]

\* float +, -, *
FloatAdd(a, b) == Float(a + b)
FloatSub(a, b) == Float(a - b)
FloatMul(a, b) == Float(a * b)

\* sum(s) of Python: from 0, left to right
RECURSIVE Sum(_)
Sum(s) ==
    IF s = <<>> THEN 0 ELSE FloatAdd(Sum(SubSeq(s, 1, Len(s) - 1)), s[Len(s)])

\* Prefix with the cut left out
PrefixAll(s, n) == s

\* s[:n] of Python for n >= 0
Prefix(s, n) == SubSeq(s, 1, IF n < Len(s) THEN n ELSE Len(s))

\* workflow.steps, as the list of ids in list order
StepList == [i \in 1..NumSteps |-> i]

Range(s) == {s[i] : i \in 1..Len(s)}

(* ------------------------ WorkflowDefinition --------------------------- *)
\* WorkflowDefinition.get_step: the step with that id, or None
get_step(step_id) == IF step_id \in Steps THEN step_id ELSE None

\* deps_met with a FAILED dependency counted as met
deps_met_finished(s) ==
    \A dep_id \in depends_on[s] :
        get_step(dep_id) # None =>
            status[get_step(dep_id)] \in {"completed", "failed"}

\* the all(...) of get_ready_steps: ids that name no step are skipped
deps_met(s) ==
    \A dep_id \in depends_on[s] :
        get_step(dep_id) # None => status[get_step(dep_id)] = "completed"

\* get_ready_steps with the steps walked from the end of the list
get_ready_steps_reversed ==
    LET ready == SelectSeq(StepList, LAMBDA s : status[s] = "pending" /\ deps_met(s))
    IN  [i \in 1..Len(ready) |-> ready[Len(ready) + 1 - i]]

\* WorkflowDefinition.get_ready_steps: PENDING steps with dependencies met,
\* in list order
get_ready_steps ==
    SelectSeq(StepList, LAMBDA s : status[s] = "pending" /\ deps_met(s))

(* --------------------------- input values ------------------------------ *)
\* A value of step.inputs.  A Python str is the sequence of its symbols: "$"
\* and "." are themselves, every other symbol is a name without "$" or "."
\* ("workflow", "goal", "result", ..., a step's id).  Values that are not
\* strings carry no symbols.
Str(chars) == [type |-> "str", chars |-> chars]
\* a value that is not a str (a number)
NumberValue == [type |-> "int", chars |-> <<>>]
\* Python's None as a value
NoneValue == [type |-> "none", chars |-> <<>>]
\* the empty list (WorkflowStep.findings is never written by the scheduler)
EmptyList == [type |-> "list", chars |-> <<>>]
\* a list of finding dicts, and a dict, as a loaded workflow may carry them
SomeList == [type |-> "list", chars |-> <<"finding">>]
SomeDict(name) == [type |-> "dict", chars |-> <<name>>]
\* the empty mapping: WorkflowStep.outputs == {}
EmptyMapping == [k \in {} |-> NoneValue]
\* step.inputs == {}: the step has no input to resolve
NoInput == [type |-> "absent", chars |-> <<>>]

\* the text of the id n: a step's id is the text the step carries, an id that
\* names no step is its number
IdText(n) == IF n \in DOMAIN id THEN id[n] ELSE ToString(n)

\* the field of step s, or the dataclass default
FieldOf(field, s, default) == IF s \in DOMAIN field THEN field[s] ELSE default

\* AgentResult.output of step s's runner call, a str
Output(s) == Str(<<"output", IdText(s)>>)

\* workflow.inputs: the global inputs hold the goal, set by the caller
workflow_inputs == [goal |-> Str(<<"the", "goal">>)]

\* workflow.inputs.get(key), key a sequence of symbols
inputs_get(key) ==
    IF key = <<"goal">> THEN workflow_inputs.goal ELSE NoneValue

\* a reference "$<source>.<key>"
Ref(source, key) == Str(<<"$", source, ".", key>>)

\* the strings tried as input values: plain text, text with a dot but no
\* "$", "$" alone, "$" and one part, references to the workflow's inputs, a
\* reference with an empty source, and references to every id of DepIds
\* (the last of which names no step) by the keys result, findings and nope
InputTexts ==
    { Str(<<"goal">>), Str(<<IdText(1), ".", "result">>), Str(<<>>),
      Str(<<"$">>), Str(<<"$", IdText(1)>>), Str(<<"$", "workflow">>),
      Ref("workflow", "goal"), Ref("workflow", "nope"),
      Str(<<"$", ".", "result">>) }
        \cup {Ref(IdText(d), k) : d \in DepIds, k \in {"result", "findings", "nope"}}

\* the values tried as arguments of resolve_input
InputValues == InputTexts \cup {NumberValue, NoneValue}

\* str.startswith("$")
startswith_dollar(chars) == chars # <<>> /\ Head(chars) = "$"

\* str.split(".") that finds no dot
split_none(chars) == <<chars>>

\* str.split("."): the pieces between the dots, empty pieces included
RECURSIVE split(_)
split(chars) ==
    IF \A i \in 1..Len(chars) : chars[i] # "."
    THEN <<chars>>
    ELSE LET i == CHOOSE j \in 1..Len(chars) :
                      chars[j] = "." /\ \A k \in 1..(j - 1) : chars[k] # "."
         IN  <<SubSeq(chars, 1, i - 1)>> \o split(SubSeq(chars, i + 1, Len(chars)))

\* get_step for an id given as text: the step whose id has that text, or None
get_step_named(source) ==
    IF \E s \in Steps : source = <<IdText(s)>>
    THEN get_step(CHOOSE s \in Steps : source = <<IdText(s)>>)
    ELSE None

\* step.outputs.get(key), key a sequence of symbols
outputs_get(step, key) ==
    IF Len(key) = 1 /\ key[1] \in DOMAIN FieldOf(outputs, step, EmptyMapping)
    THEN FieldOf(outputs, step, EmptyMapping)[key[1]]
    ELSE NoneValue

\* resolve_input with every string that begins with "$" resolved to None
resolve_input_strict(value) ==
    IF value.type # "str" \/ ~startswith_dollar(value.chars)
    THEN value
    ELSE NoneValue

\* WorkflowDefinition.resolve_input
resolve_input(value) ==
    IF value.type # "str" \/ ~startswith_dollar(value.chars)
    THEN value
    ELSE LET parts == split(Tail(value.chars))
         IN  IF Len(parts) < 2
             THEN value
             ELSE LET source == parts[1]
                      key == parts[2]
                      step == get_step_named(source)
                  IN  IF source = <<"workflow">>
                      THEN inputs_get(key)
                      ELSE IF step = None
                      THEN value
                      ELSE CASE key = <<"findings">> -> FieldOf(findings, step, EmptyList)
                             [] key = <<"change_plan">> -> FieldOf(change_plan, step, NoneValue)
                             [] key = <<"eval_result">> -> FieldOf(eval_result, step, NoneValue)
                             [] key = <<"result">> -> result[step]
                             [] OTHER -> outputs_get(step, key)

\* lines 519-522 of _execute_step: the step's input, resolved
resolve_inputs(s) ==
    IF inputs[s] = NoInput THEN NoInput ELSE resolve_input(inputs[s])

(* ----------------------------- CostTracker ----------------------------- *)
\* attributes and methods a CostTracker instance has
CostTrackerAttrs ==
    { "budget_usd", "persist_path", "entries", "alerts", "_alert_thresholds",
      "_triggered_thresholds", "PRICING", "calculate_cost", "record",
      "get_total_cost", "get_remaining_budget", "is_over_budget",
      "get_summary", "get_cost_by_timeframe", "reset" }

\* the model every agent definition of the repository names
AgentModel == "claude-sonnet-4"

\* the model names tried: two of PRICING and one that PRICING lacks
Models == {"claude-sonnet-4", "claude-opus-4", "local-model"}

\* CostTracker.PRICING (lines 36-37), per token
PRICING ==
    ("claude-opus-4" :> [input |-> OpusInputPrice, output |-> OpusOutputPrice])
        @@ ("claude-sonnet-4" :> [input |-> InputPrice, output |-> OutputPrice])

\* CostTracker.calculate_cost
calculate_cost(model, input_tokens, output_tokens) ==
    LET pricing == IF model \in DOMAIN PRICING
                   THEN PRICING[model]
                   ELSE [input |-> InputPrice, output |-> OutputPrice]
    IN  FloatAdd(FloatMul(input_tokens, pricing.input),
                 FloatMul(output_tokens, pricing.output))

\* the CostEntry of lines 109-119.  timestamp, provider, task_id and
\* agent_name are left out: numbers, strings and None that nothing reads
CostEntry(model, input_tokens, output_tokens, metadata) ==
    [model |-> model, input_tokens |-> input_tokens,
     output_tokens |-> output_tokens,
     cost_usd |-> calculate_cost(model, input_tokens, output_tokens),
     metadata |-> metadata]

\* the metadata tried: none (stored as {}), a dict holding a list, and a dict
\* holding a tuple
Metadata ==
    { EmptyMapping, [files |-> [type |-> "list", chars |-> <<"a">>]],
      [files |-> [type |-> "tuple", chars |-> <<"a">>]] }

\* the metadata that JSON gives back as it was
JsonExact == {m \in Metadata : \A k \in DOMAIN m : m[k].type # "tuple"}

\* sum(e.cost_usd for e in es)
TotalOf(es) == Sum([i \in 1..Len(es) |-> es[i].cost_usd])

\* CostTracker.get_total_cost
get_total_cost == TotalOf(entries)

\* CostTracker.get_remaining_budget without the floor
budget_left == FloatSub(budget_usd, get_total_cost)

\* CostTracker.get_remaining_budget: max(0, budget_usd - total)
get_remaining_budget ==
    IF FloatSub(budget_usd, get_total_cost) > 0
    THEN FloatSub(budget_usd, get_total_cost)
    ELSE 0

\* CostTracker.is_over_budget
is_over_budget == get_total_cost >= budget_usd

\* CostTracker._alert_thresholds, in percent
alert_thresholds == <<50, 75, 90, 100>>

\* line 131 and the comparison of line 134: percent_used >= threshold
percent_used_reaches(total, threshold) ==
    IF budget_usd > 0 THEN total * 100 >= threshold * budget_usd ELSE FALSE

\* _check_budget_alerts that does not consult the triggered set
fired_again(es) ==
    SelectSeq(alert_thresholds, LAMBDA th : percent_used_reaches(TotalOf(es), th))

\* _check_budget_alerts on the entries es: the thresholds that fire, in order
fired(es) ==
    SelectSeq(alert_thresholds,
              LAMBDA th : /\ th \notin triggered_thresholds
                          /\ percent_used_reaches(TotalOf(es), th))

\* json.dumps of a value: lists and tuples both become arrays
json_dumps(value) ==
    IF value.type \in {"list", "tuple"} THEN [value EXCEPT !.type = "array"] ELSE value

\* json.loads of a value: an array becomes a list
json_loads(value) ==
    IF value.type = "array" THEN [value EXCEPT !.type = "list"] ELSE value

\* the dict written for an entry (lines 72-82), as JSON
entry_saved(e) ==
    [e EXCEPT !.metadata = [k \in DOMAIN e.metadata |-> json_dumps(e.metadata[k])]]

\* CostEntry(**e) of line 61, for a dict read from JSON
entry_loaded(d) ==
    [d EXCEPT !.metadata = [k \in DOMAIN d.metadata |-> json_loads(d.metadata[k])]]

\* the lists list(S) can be: the members of S once each, in any order
ListsOf(S) == {q \in [1..Cardinality(S) -> S] : Range(q) = S}

\* no file at persist_path
NoFile == [exists |-> FALSE, entries |-> <<>>, triggered_thresholds |-> <<>>]

\* the files _save can write when the triggered set is left out
SavedEntriesOnly(es, S) ==
    { [exists |-> TRUE, entries |-> [i \in 1..Len(es) |-> entry_saved(es[i])],
       triggered_thresholds |-> <<>>] }

\* the files _save can write for the entries es and the triggered set S
Saved(es, S) ==
    { [exists |-> TRUE, entries |-> [i \in 1..Len(es) |-> entry_saved(es[i])],
       triggered_thresholds |-> q] : q \in ListsOf(S) }

\* entries after _load (line 61)
loaded_entries ==
    IF persisted.exists
    THEN [i \in 1..Len(persisted.entries) |-> entry_loaded(persisted.entries[i])]
    ELSE <<>>

\* _triggered_thresholds after _load (line 62)
loaded_thresholds ==
    IF persisted.exists THEN Range(persisted.triggered_thresholds) ELSE {}

\* lines 121-123 of record, for the new entry list es: the alerts of
\* _check_budget_alerts and the file of _save
Recorded(es) ==
    /\ entries' = es
    /\ triggered_thresholds' = triggered_thresholds \cup Range(fired(es))
    /\ alerts' = alerts \o fired(es)
    /\ alert_log' = alert_log \o fired(es)
    /\ record_calls' = record_calls + 1
    /\ UNCHANGED loaded
    /\ IF persist_path
       THEN persisted' \in Saved(es, triggered_thresholds \cup Range(fired(es)))
       ELSE persisted' = persisted
    /\ UNCHANGED persist_path

\* the models of es in the order of their first entry: the key order of the
\* by_model dict
RECURSIVE FirstSeen(_)
FirstSeen(es) ==
    IF es = <<>>
    THEN <<>>
    ELSE LET seen == FirstSeen(SubSeq(es, 1, Len(es) - 1))
             model == es[Len(es)].model
         IN  IF model \in Range(seen) THEN seen ELSE Append(seen, model)

\* the costs of the entries of es made with model m, in order
CostsOf(es, m) ==
    LET made == SelectSeq(es, LAMBDA e : e.model = m)
    IN  [i \in 1..Len(made) |-> made[i].cost_usd]

\* by_model of get_summary that keeps each model's first entry only
by_model_first(es) ==
    [m \in Range(FirstSeen(es)) |-> CostsOf(es, m)[1]]

\* by_model of get_summary (lines 159-163)
by_model(es) ==
    [m \in Range(FirstSeen(es)) |-> Sum(CostsOf(es, m))]

\* CostTracker.get_summary, without percent_used and by_agent
get_summary ==
    [total_cost_usd |-> get_total_cost,
     budget_usd |-> budget_usd,
     remaining_usd |-> get_remaining_budget,
     entry_count |-> Len(entries),
     by_model |-> by_model(entries),
     alerts |-> alerts]

\* sum(by_model.values()): the values in key order
SumOfValues(es, d) ==
    Sum([i \in 1..Len(FirstSeen(es)) |-> d[FirstSeen(es)[i]]])

\* entries after _execute_step's cost_tracker.record(model, tokens_used // 2,
\* tokens_used // 2)
record(tokens_used) ==
    Append(entries, CostEntry(AgentModel, tokens_used \div 2, tokens_used \div 2,
                              EmptyMapping))

(* ------------------------- runner call outcomes ------------------------ *)
\* how one agent.execute call under asyncio.wait_for can end.  "raise" also
\* stands for the ValueError of an unknown agent name, which leaves
\* _execute_step the same way (status RUNNING, exception out).
Outcomes ==
    [kind : {"ok", "fail"}, tokens : {0, TokensUsed}]
        \cup [kind : {"raise", "timeout"}, tokens : {0}]

\* does _execute_step leave by an exception
Raises(o) == o.kind \in {"raise", "timeout"}

\* str(exception): asyncio.TimeoutError() has the empty text
ExcText(o) == IF o.kind = "timeout" THEN "" ELSE "exc_text"

\* StatusAfterCall with a step whose call did not succeed put back to PENDING
StatusAfterCallRequeued(s, o) ==
    IF o.kind = "ok" THEN "completed" ELSE "pending"

\* step.status when _execute_step is left (lines 543-557)
StatusAfterCall(s, o) ==
    CASE o.kind = "ok" -> "completed"
      [] o.kind = "fail" -> "failed"
      [] o.kind = "timeout" -> "failed"
      [] o.kind = "raise" -> status[s]

\* step.error_message when _execute_step is left
ErrorAfterCall(s, o) ==
    CASE o.kind = "ok" -> error_message[s]
      [] o.kind = "fail" -> "result_error"
      [] o.kind = "timeout" -> "timeout_msg"
      [] o.kind = "raise" -> error_message[s]

\* step.result when _execute_step is left (line 551: set from result.output
\* whether or not the call reports success; not reached on an exception)
ResultAfterCall(s, o) == IF Raises(o) THEN result[s] ELSE Output(s)

\* the ledger when _execute_step is left without a call of record
EntriesAfterCallDropped(o) == entries

\* the ledger when _execute_step is left (record is not reached on raise)
EntriesAfterCall(o) == IF Raises(o) THEN entries ELSE record(o.tokens)

(* ----------------------- partition of a pass --------------------------- *)
\* the ready steps grouped by parallel_group: groups in order of their first
\* ready member (dict insertion order), members in list order
\* GroupBy with every ready step put in a group of its own
GroupBySingly(seq) == [i \in 1..Len(seq) |-> <<seq[i]>>]

RECURSIVE GroupBy(_)
GroupBy(seq) ==
    IF seq = <<>> THEN <<>>
    ELSE LET g == parallel_group[Head(seq)]
         IN  <<SelectSeq(seq, LAMBDA s : parallel_group[s] = g)>>
                 \o GroupBy(SelectSeq(Tail(seq), LAMBDA s : parallel_group[s] # g))

parallel_groups(ready) ==
    GroupBy(SelectSeq(ready, LAMBDA s : parallel_group[s] # NoGroup))

sequential_steps(ready) ==
    SelectSeq(ready, LAMBDA s : parallel_group[s] = NoGroup)

(* ------------------------------- Init ---------------------------------- *)
\* group tags are only compared with each other, so a workflow uses them in
\* order: tag g + 1 appears only after tag g has appeared earlier in the list
TagsInOrder(pg) ==
    \A s \in Steps :
        pg[s] > 1 => \E r \in 1..(s - 1) : pg[r] = pg[s] - 1

(* ------------------------------ Forge.run ------------------------------ *)
\* the agent names of _decompose_goal (lines 194-223), in the order of its
\* tests
Phases ==
    <<"backend_analyzer", "security_analyzer", "debugger", "improver", "tester",
      "documenter">>

AgentNames == {Phases[k] : k \in 1..Len(Phases)}

\* _decompose_goal.  A goal is known by the tests its words pass, each named
\* by the agent it appends; none passed gives the default of lines 217-221
_decompose_goal(goal) ==
    LET steps == SelectSeq(Phases, LAMBDA name : name \in goal)
    IN  IF steps = <<>> THEN <<"backend_analyzer", "improver">> ELSE steps

\* no WorkflowResult yet
NoResult ==
    [success |-> TRUE, results |-> <<>>, error |-> "none", steps_completed |-> 0,
     total_steps |-> 0]

(* ------------------------ SubagentOrchestrator ------------------------- *)
Tasks == 1..NumTasks

\* the ids a dependencies map may list: the subtasks' and one that is no
\* subtask's
DepTaskIds == 1..(NumTasks + 1)

\* a SubagentOrchestrator just constructed, no call under way
NoSubagents ==
    /\ subtasks = <<>>
    /\ dependencies = <<>>
    /\ completed = {}
    /\ results = <<>>
    /\ caller = "none"
    /\ batch = <<>>
    /\ max_concurrent = 0
    /\ task_state = <<>>
    /\ final_results = <<>>
    /\ spc = "idle"
    /\ spawned = <<>>

\* ALL_AGENTS as the package builds it: every name of _decompose_goal is a key
Registered == agents = AgentNames

\* a Forge just constructed, no run under way
NoRun ==
    /\ run_steps = <<>>
    /\ position = 0
    /\ workflow_result = NoResult
    /\ rpc = "idle"
    /\ over_after = <<>>

\* the subtasks inside "async with semaphore": spawn is running for them
InFlight == {i \in DOMAIN task_state : task_state[i] = "running"}

\* the coroutines of the batch waiting for the semaphore, in list order
Waiting == SelectSeq(batch, LAMBDA i : task_state[i] = "waiting")

\* how a spawn call can end: agent.execute returns a result that reports
\* success or failure, agent.execute raises (caught at line 67), or the
\* ClaudeAgent constructor of line 49 raises, which leaves spawn
SpawnEnds == {"success", "failure", "caught", "raised"}

\* has the subtask's coroutine ended
Ended(i) == task_state[i] \in SpawnEnds

\* the SubagentResult for subtask i: spawn's (lines 59-74) or, when spawn
\* raised, the one of lines 99-104
SubagentResult(i) == [task_id |-> i, success |-> task_state[i] = "success"]

\* lines 96-108 with the results of raising coroutines left out
FinalResultsOfReturned ==
    LET returns == SelectSeq(batch, LAMBDA i : task_state[i] # "raised")
    IN  [k \in 1..Len(returns) |-> SubagentResult(returns[k])]

\* lines 96-108: one result for each member of the batch, in list order
FinalResults == [k \in 1..Len(batch) |-> SubagentResult(batch[k])]

\* lines 136-142 without the test of the dependencies
ready_ignoring_deps ==
    SelectSeq(subtasks, LAMBDA i : i \notin completed)

\* lines 136-142: the subtasks not completed whose listed ids are all completed
ready_subtasks ==
    SelectSeq(subtasks, LAMBDA i : i \notin completed /\ dependencies[i] \subseteq completed)

\* a step's id is its number in the list; the result bags and outputs keep
\* the dataclass defaults
StepDefaults ==
    /\ id = <<>>
    /\ findings = <<>>
    /\ change_plan = <<>>
    /\ eval_result = <<>>
    /\ outputs = <<>>

\* SolutionArchitect's tracker: CostTracker(budget_usd=settings.budget_usd)
TrackerDefaults ==
    /\ budget_usd = BudgetMicro
    /\ persist_path = FALSE

\* the workflows submitted: every dependency map in which a step lists at
\* most MaxDeps ids, each another step's id or an id naming no step (so
\* chains, forks, joins, cycles of length 2 and 3, unknown ids); every
\* assignment of group tags; both failure policies; caps 0 .. MaxCap
Workflows ==
    /\ depends_on \in [Steps -> {D \in SUBSET DepIds : Cardinality(D) <= MaxDeps}]
    /\ \A s \in Steps : s \notin depends_on[s]
    /\ parallel_group \in [Steps -> {NoGroup} \cup GroupTags]
    /\ TagsInOrder(parallel_group)
    /\ max_parallel_steps \in 0..MaxCap
    /\ stop_on_failure \in BOOLEAN
    /\ StepDefaults
    /\ Registered
    /\ TrackerDefaults

\* the state execute_workflow is called in: every step PENDING, a fresh
\* SolutionArchitect (empty ledger)
NotStarted ==
    /\ status = [s \in Steps |-> "pending"]
    /\ error_message = [s \in Steps |-> "none"]
    /\ retry_attempts = [s \in Steps |-> 0]
    /\ resolved_inputs = [s \in Steps |-> NoInput]
    /\ wf_status = "pending"
    /\ wf_error_message = "none"
    /\ failed_step_id = None
    /\ result_success = TRUE
    /\ result_error = <<"none">>
    /\ entries = <<>>
    /\ alerts = <<>>
    /\ triggered_thresholds = {}
    /\ persisted = NoFile
    /\ alert_log = <<>>
    /\ loaded = 0
    /\ record_calls = 0
    /\ pc = "init"
    /\ group_queue = <<>>
    /\ group_steps = <<>>
    /\ started = 0
    /\ task_result = [s \in Steps |-> "none"]
    /\ seq_queue = <<>>
    /\ inflight = {}
    /\ exit = "none"
    /\ calls = 0
    /\ argument = NoInput
    /\ returned = NoInput
    /\ NoSubagents
    /\ NoRun
    /\ outcome = [s \in Steps |-> "none"]
    /\ invocations = [s \in Steps |-> 0]
    /\ over_at_batch_end = FALSE
    /\ failed_at_batch_end = FALSE
    /\ ready_at_pass = {}
    /\ dispatch_order = <<>>
    /\ first_end = [wf |-> "pending", steps |-> [s \in Steps |-> "pending"]]

\* a workflow built from step definitions: nothing has run and no step has a
\* result
Fresh ==
    /\ result = [s \in Steps |-> NoneValue]
    /\ NotStarted

\* retry_count and inputs keep the dataclass defaults
Init ==
    /\ Workflows
    /\ retry_count = [s \in Steps |-> 0]
    /\ inputs = [s \in Steps |-> NoInput]
    /\ Fresh

(* ------------------------- execute_workflow ---------------------------- *)
\* where the pass goes once partitioned, and after each group's fan-in
AfterGroups(queue) == IF queue # <<>> THEN "groups" ELSE "seq"

\* lines 386-392: the call begins
Begin ==
    /\ pc = "init"
    /\ wf_status' = "running"
    /\ result_success' = TRUE
    /\ result_error' = <<"none">>
    /\ calls' = calls + 1
    /\ pc' = "loop"
    /\ UNCHANGED <<cfg, stepv, wf_error_message, failed_step_id, entries,
                   group_queue, group_steps, started, task_result, seq_queue,
                   inflight, exit, obs>>
    /\ UNCHANGED <<aux, ledger>>

\* FinalStatus with the COMPLETED mark left out
FinalStatusKept(success, st) == st

\* lines 475-485: aggregation (no step carries findings written by the
\* scheduler, so nothing is parsed) and the COMPLETED mark
FinalStatus(success, st) == IF success THEN "completed" ELSE st

\* lines 494-501: the finally block reads cost_tracker.total_cost_usd and
\* cost_tracker.total_tokens before the return statement is reached
ExitKind ==
    IF {"total_cost_usd", "total_tokens"} \subseteq CostTrackerAttrs
    THEN "returned" ELSE "raised"

\* line 401: the steps still PENDING
pending_steps == {s \in Steps : status[s] = "pending"}

\* running_steps with the PENDING steps counted as running
running_or_pending == {s \in Steps : status[s] \in {"running", "pending"}}

\* line 406: the steps in status RUNNING
running_steps == {s \in Steps : status[s] = "running"}

\* stops with the stop_on_failure test left out
stops_always(raised) == raised

\* lines 440 and 457: does a step's exception end the workflow
stops(raised) == raised /\ stop_on_failure

\* lines 397-428: one scheduler pass up to the partition of the ready steps;
\* when the loop is left here, lines 475-501 follow at once
Pass ==
    /\ pc = "loop"
    /\ LET ready == get_ready_steps
           pending == pending_steps
           running == running_steps
       IN  IF ready = <<>>
           THEN IF pending = {}
                THEN \* all done
                     /\ wf_status' = FinalStatus(result_success, wf_status)
                     /\ pc' = "done"
                     /\ exit' = ExitKind
                     /\ UNCHANGED <<wf_error_message, failed_step_id, resv,
                                    group_queue, seq_queue>>
                ELSE IF running = {}
                THEN \* stuck
                     /\ wf_status' = FinalStatus(FALSE, "failed")
                     /\ wf_error_message' = "stuck"
                     /\ result_success' = FALSE
                     /\ result_error' = <<"stuck">>
                     /\ pc' = "done"
                     /\ exit' = ExitKind
                     /\ UNCHANGED <<failed_step_id, group_queue, seq_queue>>
                ELSE \* asyncio.sleep(0.1); continue
                     /\ pc' = "loop"
                     /\ UNCHANGED <<wfv, resv, group_queue, seq_queue, exit>>
           ELSE /\ group_queue' = parallel_groups(ready)
                /\ seq_queue' = Prefix(sequential_steps(ready), max_parallel_steps)
                /\ pc' = AfterGroups(parallel_groups(ready))
                /\ UNCHANGED <<wfv, resv, exit>>
    /\ ready_at_pass' = Range(get_ready_steps)
    /\ UNCHANGED <<cfg, stepv, entries, group_steps, started, task_result,
                   inflight, calls, outcome, invocations, over_at_batch_end,
                   failed_at_batch_end, dispatch_order, first_end>>
    /\ UNCHANGED <<aux, ledger>>

\* lines 431-434: the next parallel group's tasks are created and gathered
GroupDispatch ==
    /\ pc = "groups"
    /\ group_queue # <<>>
    /\ group_steps' = Head(group_queue)
    /\ group_queue' = Tail(group_queue)
    /\ started' = 0
    /\ task_result' = [s \in Steps |-> "none"]
    /\ pc' = "gather"
    /\ UNCHANGED <<cfg, stepv, wfv, resv, entries, seq_queue, inflight, exit,
                   calls, obs>>
    /\ UNCHANGED <<aux, ledger>>

\* lines 509-542, as a task of the gather: the next task of the group begins
\* (tasks begin in list order); its step goes RUNNING and its runner is called
GroupStart ==
    /\ pc = "gather"
    /\ started < Len(group_steps)
    /\ LET s == group_steps[started + 1]
       IN  /\ status' = [status EXCEPT ![s] = "running"]
           /\ resolved_inputs' = [resolved_inputs EXCEPT ![s] = resolve_inputs(s)]
           /\ inflight' = inflight \cup {s}
           /\ invocations' = [invocations EXCEPT ![s] = @ + 1]
           /\ dispatch_order' = Append(dispatch_order, s)
    /\ started' = started + 1
    /\ UNCHANGED <<cfg, error_message, retry_attempts, result, wfv, resv, entries,
                   pc, group_queue, group_steps, task_result, seq_queue, exit,
                   calls, outcome, over_at_batch_end, failed_at_batch_end,
                   ready_at_pass, first_end>>
    /\ UNCHANGED <<aux, ledger>>

\* lines 543-566, as a task of the gather: one call in flight ends
GroupFinish(s, o) ==
    /\ pc = "gather"
    /\ s \in inflight
    /\ inflight' = inflight \ {s}
    /\ status' = [status EXCEPT ![s] = StatusAfterCall(s, o)]
    /\ error_message' = [error_message EXCEPT ![s] = ErrorAfterCall(s, o)]
    /\ result' = [result EXCEPT ![s] = ResultAfterCall(s, o)]
    /\ IF Raises(o) THEN UNCHANGED <<entries, ledger>>
                    ELSE Recorded(EntriesAfterCall(o))
    /\ task_result' = [task_result EXCEPT ![s] =
                          IF Raises(o) THEN ExcText(o) ELSE "returned"]
    /\ outcome' = [outcome EXCEPT ![s] = o.kind]
    /\ UNCHANGED <<cfg, retry_attempts, resolved_inputs, wfv, resv, pc,
                   group_queue, group_steps, started, seq_queue, exit, calls,
                   invocations, over_at_batch_end, failed_at_batch_end,
                   ready_at_pass, dispatch_order, first_end>>
    /\ UNCHANGED aux

\* the members of the gathered group whose task result is an exception
Excepted == SelectSeq(group_steps, LAMBDA s : task_result[s] \notin {"none", "returned"})

\* the members the zip loop of lines 436-445 reaches with an exception: all
\* of them, or, under stop_on_failure, the first one (the loop breaks there)
Handled == IF stops(TRUE) THEN Prefix(Excepted, 1) ELSE Excepted

\* gather_returns without the wait for the calls still in flight
gather_returns_early == started = Len(group_steps)

\* line 434: asyncio.gather(..., return_exceptions=True) returns once every
\* task has begun and ended, whatever the tasks' results
gather_returns == started = Len(group_steps) /\ inflight = {}

\* lines 434-445: the gather returns (every task has ended) and its results
\* are walked
GroupCollect ==
    /\ pc = "gather"
    /\ gather_returns
    /\ status' = [s \in Steps |->
                    IF s \in Range(Handled) THEN "failed" ELSE status[s]]
    /\ error_message' = [s \in Steps |->
                    IF s \in Range(Handled) THEN task_result[s] ELSE error_message[s]]
    /\ IF stops(Excepted # <<>>)
       THEN /\ wf_status' = "failed"
            /\ failed_step_id' = Head(Excepted)
            /\ result_success' = FALSE
            /\ result_error' = <<"step_failed", Head(Excepted), task_result[Head(Excepted)]>>
            /\ UNCHANGED wf_error_message
       ELSE UNCHANGED <<wfv, resv>>
    /\ over_at_batch_end' = (over_at_batch_end \/ is_over_budget)
    /\ failed_at_batch_end' =
          (failed_at_batch_end \/ \E s \in Steps : status'[s] = "failed")
    /\ pc' = AfterGroups(group_queue)
    /\ UNCHANGED <<cfg, retry_attempts, result, resolved_inputs, entries,
                   group_queue, group_steps, started, task_result, seq_queue,
                   inflight, exit, calls, outcome, invocations, ready_at_pass,
                   dispatch_order, first_end>>
    /\ UNCHANGED <<aux, ledger>>

\* lines 464-473: the budget gate and the failure gate that end a pass;
\* when the loop is left, lines 475-501 follow at once
EndOfPass ==
    IF is_over_budget
    THEN /\ wf_status' = FinalStatus(FALSE, "failed")
         /\ wf_error_message' = "budget"
         /\ result_success' = FALSE
         /\ result_error' = <<"budget">>
         /\ pc' = "done"
         /\ exit' = ExitKind
         /\ UNCHANGED failed_step_id
    ELSE IF ~result_success
    THEN /\ wf_status' = FinalStatus(result_success, wf_status)
         /\ pc' = "done"
         /\ exit' = ExitKind
         /\ UNCHANGED <<wf_error_message, failed_step_id, resv>>
    ELSE /\ pc' = "loop"
         /\ UNCHANGED <<wfv, resv, exit>>

\* lines 448-453: the sequential loop's next iteration: it dispatches the
\* next step, or the loop is over and the pass ends (lines 464-473)
SeqNext ==
    /\ pc = "seq"
    /\ IF seq_queue = <<>> \/ (~result_success /\ stop_on_failure)
       THEN /\ EndOfPass
            /\ over_at_batch_end' = (over_at_batch_end \/ is_over_budget)
            /\ failed_at_batch_end' =
                  (failed_at_batch_end \/ \E s \in Steps : status[s] = "failed")
            /\ ready_at_pass' = {}
            /\ UNCHANGED <<status, resolved_inputs, inflight, invocations,
                           dispatch_order>>
       ELSE /\ status' = [status EXCEPT ![Head(seq_queue)] = "running"]
            /\ resolved_inputs' = [resolved_inputs EXCEPT ![Head(seq_queue)] =
                                      resolve_inputs(Head(seq_queue))]
            /\ inflight' = {Head(seq_queue)}
            /\ invocations' = [invocations EXCEPT ![Head(seq_queue)] = @ + 1]
            /\ dispatch_order' = Append(dispatch_order, Head(seq_queue))
            /\ pc' = "seq_await"
            /\ UNCHANGED <<wfv, resv, exit, over_at_batch_end,
                           failed_at_batch_end, ready_at_pass>>
    /\ UNCHANGED <<cfg, error_message, retry_attempts, result, entries,
                   group_queue, group_steps, started, task_result, seq_queue,
                   calls, outcome, first_end>>
    /\ UNCHANGED <<aux, ledger>>

\* lines 453-462: the awaited sequential step ends; an exception is handled
\* on the spot
SeqFinish(o) ==
    /\ pc = "seq_await"
    /\ LET s == Head(seq_queue)
       IN  /\ inflight' = {}
           /\ status' = [status EXCEPT ![s] =
                            IF Raises(o) THEN "failed" ELSE StatusAfterCall(s, o)]
           /\ error_message' = [error_message EXCEPT ![s] =
                            IF Raises(o) THEN ExcText(o) ELSE ErrorAfterCall(s, o)]
           /\ result' = [result EXCEPT ![s] = ResultAfterCall(s, o)]
           /\ IF Raises(o) THEN UNCHANGED <<entries, ledger>>
                    ELSE Recorded(EntriesAfterCall(o))
           /\ outcome' = [outcome EXCEPT ![s] = o.kind]
           /\ IF stops(Raises(o))
              THEN /\ wf_status' = "failed"
                   /\ failed_step_id' = s
                   /\ result_success' = FALSE
                   /\ result_error' = <<"step_failed", s, ExcText(o)>>
                   /\ UNCHANGED wf_error_message
              ELSE UNCHANGED <<wfv, resv>>
           /\ seq_queue' = Tail(seq_queue)
           /\ pc' = "seq"
    /\ UNCHANGED <<cfg, retry_attempts, resolved_inputs, group_queue,
                   group_steps, started, task_result, exit, calls, invocations,
                   over_at_batch_end, failed_at_batch_end, ready_at_pass,
                   dispatch_order, first_end>>
    /\ UNCHANGED aux

Next ==
    \/ Begin
    \/ Pass
    \/ GroupDispatch
    \/ GroupStart
    \/ \E s \in Steps, o \in Outcomes : GroupFinish(s, o)
    \/ GroupCollect
    \/ SeqNext
    \/ \E o \in Outcomes : SeqFinish(o)

Spec == Init /\ [][Next]_vars

\* the workflows of Init with at most LiveMaxDeps ids per depends_on and at
\* most LiveGroups group tags
InitLive ==
    /\ Init
    /\ \A s \in Steps : Cardinality(depends_on[s]) <= LiveMaxDeps
    /\ \A s \in Steps : parallel_group[s] <= LiveGroups

\* the event loop keeps running the coroutine, and every runner call ends: it
\* returns, raises, or is cut off by wait_for's timeout
FairSpec == InitLive /\ [][Next]_vars /\ WF_vars(Next)

\* workflows without dependencies, retry_count varied over 0 .. MaxRetry
InitRetry ==
    /\ depends_on = [s \in Steps |-> {}]
    /\ Workflows
    /\ retry_count \in [Steps -> 0..MaxRetry]
    /\ inputs = [s \in Steps |-> NoInput]
    /\ Fresh

SpecRetry == InitRetry /\ [][Next]_vars

\* execute_workflow is called once more, by the same SolutionArchitect, on
\* the workflow a call has ended with: the call's locals are new, the
\* workflow, its steps and the ledger are as the call before left them
CallAgain ==
    /\ pc = "done"
    /\ calls < MaxCalls
    /\ pc' = "init"
    /\ exit' = "none"
    /\ group_queue' = <<>>
    /\ group_steps' = <<>>
    /\ started' = 0
    /\ task_result' = [s \in Steps |-> "none"]
    /\ seq_queue' = <<>>
    /\ first_end' = IF calls = 1 THEN [wf |-> wf_status, steps |-> status]
                                 ELSE first_end
    /\ UNCHANGED <<cfg, stepv, wfv, resv, entries, inflight, calls, outcome,
                   invocations, over_at_batch_end, failed_at_batch_end,
                   ready_at_pass, dispatch_order>>
    /\ UNCHANGED <<aux, ledger>>

NextRerun ==
    \/ Next
    \/ CallAgain

\* the workflows of InitLive, each run up to MaxCalls times
SpecRerun == InitLive /\ [][NextRerun]_vars

\* the input values given to a step in the runs that resolve inputs: a
\* number, plain text, "$" and one part, a reference to the goal, and the
\* results of the first step, of the second, and of a step that does not
\* exist
RunInputs ==
    { NumberValue, Str(<<"goal">>), Str(<<"$", IdText(1)>>),
      Ref("workflow", "goal"), Ref(IdText(1), "result"),
      Ref(IdText(2), "result"), Ref(IdText(NumSteps + 1), "result") }

\* the workflows of InitLive in which the last step of the list carries one
\* input
InitResolve ==
    /\ Workflows
    /\ \A s \in Steps : Cardinality(depends_on[s]) <= LiveMaxDeps
    /\ \A s \in Steps : parallel_group[s] <= LiveGroups
    /\ retry_count = [s \in Steps |-> 0]
    /\ \E v \in RunInputs :
          inputs = [s \in Steps |-> IF s = NumSteps THEN v ELSE NoInput]
    /\ Fresh

SpecResolve == InitResolve /\ [][Next]_vars

(* ============== resolve_input called on a loaded workflow ============== *)
\* the keys tried in references
Keys == {"findings", "change_plan", "eval_result", "result", "goal", "nope"}

\* the arguments tried: InputValues and the references to the workflow's
\* inputs and to every id of DepIds by every key of Keys
CallValues ==
    InputValues
        \cup {Ref(source, k) : source \in {"workflow"} \cup {IdText(d) : d \in DepIds},
                               k \in Keys}

\* a workflow as WorkflowDefinition.from_dict loads it: the first step carries
\* any id, result bags and outputs, the other steps keep the defaults
InitCall ==
    /\ depends_on = [s \in Steps |-> {}]
    /\ parallel_group = [s \in Steps |-> NoGroup]
    /\ retry_count = [s \in Steps |-> 0]
    /\ inputs = [s \in Steps |-> NoInput]
    /\ max_parallel_steps = MaxCap
    /\ stop_on_failure \in BOOLEAN
    /\ TrackerDefaults
    /\ Registered
    /\ \E n \in {ToString(1), "workflow"} : id = <<n>>
    /\ \E v \in {EmptyList, SomeList} : findings = <<v>>
    /\ \E v \in {NoneValue, SomeDict("plan")} : change_plan = <<v>>
    /\ \E v \in {NoneValue, SomeDict("eval")} : eval_result = <<v>>
    /\ \E v \in {NoneValue, Output(1)} :
          result = [s \in Steps |-> IF s = 1 THEN v ELSE NoneValue]
    /\ \E m \in {EmptyMapping, [nope |-> Str(<<"stored">>)],
                  [findings |-> Str(<<"shadowed">>)]} : outputs = <<m>>
    /\ NotStarted

\* workflow.resolve_input(value), called while no run is under way
ResolveCall(value) ==
    /\ pc = "init"
    /\ argument' = value
    /\ returned' = resolve_input(value)
    /\ UNCHANGED <<cfg, stepv, wfv, resv, entries, ledger, ctl, obs, subv, runv>>

NextCall == \E value \in CallValues : ResolveCall(value)

SpecCall == InitCall /\ [][NextCall]_vars

(* ===================== a CostTracker driven directly =================== *)
\* the budgets tried
LedgerBudgets == {0 - BudgetMicro, 0, BudgetMicro, 2 * BudgetMicro}

\* the token counts tried, as <<input_tokens, output_tokens>>
TokenCounts == {<<0, 0>>, <<1, 1>>}

\* the record calls tried, as <<model, tokens, metadata>>: every model and
\* token count without metadata, and the agents' model with every metadata
RecordArgs ==
    {<<model, tokens, EmptyMapping>> : model \in Models, tokens \in TokenCounts}
        \cup {<<AgentModel, <<1, 1>>, metadata>> : metadata \in Metadata}

\* a tracker just constructed, with or without a persist_path, and no file
InitLedger ==
    /\ depends_on = [s \in Steps |-> {}]
    /\ parallel_group = [s \in Steps |-> NoGroup]
    /\ retry_count = [s \in Steps |-> 0]
    /\ inputs = [s \in Steps |-> NoInput]
    /\ max_parallel_steps = MaxCap
    /\ stop_on_failure = FALSE
    /\ StepDefaults
    /\ Registered
    /\ budget_usd \in LedgerBudgets
    /\ persist_path \in BOOLEAN
    /\ Fresh

\* tracker.record(model, input_tokens, output_tokens, metadata=metadata)
RecordCall(model, tokens, metadata) ==
    /\ Len(entries) < MaxEntries
    /\ Recorded(Append(entries, CostEntry(model, tokens[1], tokens[2], metadata)))
    /\ UNCHANGED <<cfg, stepv, wfv, resv, ctl, obs, aux>>

\* CostTracker(budget, persist_path) constructed on the path of the tracker
\* in use, which it replaces: __init__ and _load
Reconstruct(budget) ==
    /\ persist_path
    /\ budget_usd' = budget
    /\ entries' = loaded_entries
    /\ triggered_thresholds' = loaded_thresholds
    /\ alerts' = <<>>
    /\ loaded' = Len(loaded_entries)
    /\ record_calls' = 0
    /\ UNCHANGED <<definition, persist_path, persisted, alert_log, stepv, wfv,
                   resv, ctl, obs, aux>>

NextLedger ==
    \/ \E args \in RecordArgs : RecordCall(args[1], args[2], args[3])
    \/ \E budget \in LedgerBudgets : Reconstruct(budget)

SpecLedger == InitLedger /\ [][NextLedger]_vars

(* ================= SubagentOrchestrator driven directly ================ *)
\* the orchestrator just constructed, beside a workflow that is not run
InitSpawn ==
    /\ depends_on = [s \in Steps |-> {}]
    /\ parallel_group = [s \in Steps |-> NoGroup]
    /\ retry_count = [s \in Steps |-> 0]
    /\ inputs = [s \in Steps |-> NoInput]
    /\ max_parallel_steps = MaxCap
    /\ stop_on_failure = FALSE
    /\ StepDefaults
    /\ Registered
    /\ TrackerDefaults
    /\ Fresh

\* lines 86-93: the semaphore is made and the coroutines are handed to gather
Gather(list, limit, who, states) ==
    /\ batch' = list
    /\ max_concurrent' = limit
    /\ caller' = who
    /\ task_state' = [i \in Tasks |-> IF i \in Range(list) THEN "waiting" ELSE states[i]]
    /\ final_results' = <<>>
    /\ spc' = "gather"

\* spawn_parallel(subtasks, max_concurrent) called with the first n subtasks
SpawnParallel(n, limit) ==
    /\ spc = "idle"
    /\ Gather([k \in 1..n |-> k], limit, "user", [i \in Tasks |-> "idle"])
    /\ spawned' = [i \in Tasks |-> 0]
    /\ UNCHANGED <<subtasks, dependencies, completed, results>>
    /\ UNCHANGED <<cfg, stepv, wfv, resv, entries, ledger, ctl, obs, argument, returned, runv>>

\* lines 89-90 and 49: the first waiting coroutine takes the semaphore and
\* calls spawn, whose ClaudeAgent constructor raises or which goes on to
\* await agent.execute
Start(raises) ==
    /\ spc = "gather"
    /\ Waiting # <<>>
    /\ Cardinality(InFlight) < max_concurrent
    /\ LET i == Head(Waiting)
       IN  /\ task_state' = [task_state EXCEPT ![i] = IF raises THEN "raised" ELSE "running"]
           /\ spawned' = [spawned EXCEPT ![i] = @ + 1]
    /\ UNCHANGED <<subtasks, dependencies, completed, results, caller, batch,
                   max_concurrent, final_results, spc>>
    /\ UNCHANGED <<cfg, stepv, wfv, resv, entries, ledger, ctl, obs, argument, returned, runv>>

\* lines 58-80 and the exit of "async with": agent.execute ends for subtask
\* i, spawn returns its result and the semaphore is released
Finish(i, end) ==
    /\ spc = "gather"
    /\ i \in InFlight
    /\ task_state' = [task_state EXCEPT ![i] = end]
    /\ UNCHANGED <<subtasks, dependencies, completed, results, caller, batch,
                   max_concurrent, final_results, spc, spawned>>
    /\ UNCHANGED <<cfg, stepv, wfv, resv, entries, ledger, ctl, obs, argument, returned, runv>>

\* lines 93-108, for a call from outside: gather returns once every
\* coroutine has ended, and spawn_parallel returns final_results
Return ==
    /\ spc = "gather"
    /\ caller = "user"
    /\ \A i \in Range(batch) : Ended(i)
    /\ final_results' = FinalResults
    /\ spc' = "returned"
    /\ UNCHANGED <<subtasks, dependencies, completed, results, caller, batch,
                   max_concurrent, task_state, spawned>>
    /\ UNCHANGED <<cfg, stepv, wfv, resv, entries, ledger, ctl, obs, argument, returned, runv>>

NextParallel ==
    \/ \E n \in 0..NumTasks, limit \in 0..MaxConcurrent : SpawnParallel(n, limit)
    \/ \E raises \in BOOLEAN : Start(raises)
    \/ \E i \in Tasks, end \in SpawnEnds \ {"raised"} : Finish(i, end)
    \/ Return

SpecParallel == InitSpawn /\ [][NextParallel]_vars

\* every agent.execute call ends and the event loop runs what can run
FairParallel == SpecParallel /\ WF_vars(NextParallel)

\* the dependencies maps tried: for each subtask at most MaxDeps ids, its own
\* and one that is no subtask's among them
DependencyMaps ==
    [Tasks -> {D \in SUBSET DepTaskIds : Cardinality(D) <= MaxDeps}]

\* spawn_with_dependencies(subtasks, dependencies) called (lines 130-132)
SpawnWithDependencies(map) ==
    /\ spc = "idle"
    /\ subtasks' = [k \in 1..NumTasks |-> k]
    /\ dependencies' = map
    /\ completed' = {}
    /\ results' = <<>>
    /\ spc' = "loop"
    /\ task_state' = [i \in Tasks |-> "idle"]
    /\ spawned' = [i \in Tasks |-> 0]
    /\ UNCHANGED <<caller, batch, max_concurrent, final_results>>
    /\ UNCHANGED <<cfg, stepv, wfv, resv, entries, ledger, ctl, obs, argument, returned, runv>>

\* lines 134-149: the loop test, the ready list, and either the break or the
\* call of spawn_parallel(ready)
Loop ==
    /\ spc = "loop"
    /\ IF Cardinality(completed) < Len(subtasks) /\ ready_subtasks # <<>>
       THEN Gather(ready_subtasks, DefaultMaxConcurrent, "deps", task_state)
       ELSE /\ spc' = "done"
            /\ UNCHANGED <<caller, batch, max_concurrent, task_state, final_results>>
    /\ UNCHANGED <<subtasks, dependencies, completed, results, spawned>>
    /\ UNCHANGED <<cfg, stepv, wfv, resv, entries, ledger, ctl, obs, argument, returned, runv>>

\* lines 93-108 and 149-153: spawn_parallel returns to the loop, which
\* extends results and adds the batch's ids to completed
Collect ==
    /\ spc = "gather"
    /\ caller = "deps"
    /\ \A i \in Range(batch) : Ended(i)
    /\ final_results' = FinalResults
    /\ results' = results \o FinalResults
    /\ completed' = completed \cup {FinalResults[k].task_id : k \in 1..Len(FinalResults)}
    /\ spc' = "loop"
    /\ UNCHANGED <<subtasks, dependencies, caller, batch, max_concurrent,
                   task_state, spawned>>
    /\ UNCHANGED <<cfg, stepv, wfv, resv, entries, ledger, ctl, obs, argument, returned, runv>>

NextDependencies ==
    \/ \E map \in DependencyMaps : SpawnWithDependencies(map)
    \/ Loop
    \/ \E raises \in BOOLEAN : Start(raises)
    \/ \E i \in Tasks, end \in SpawnEnds \ {"raised"} : Finish(i, end)
    \/ Collect

SpecDependencies == InitSpawn /\ [][NextDependencies]_vars

(* ======================= properties of the scheduler =================== *)
\* the ids of s.depends_on that name a step of the workflow
Deps(s) == depends_on[s] \cap Steps

RECURSIVE Reach(_, _)
Reach(S, n) ==
    IF n = 0 THEN S ELSE Reach(S \cup UNION {Deps(x) : x \in S}, n - 1)

\* the steps s depends on, directly or transitively
Upstream(s) == Reach(Deps(s), NumSteps)

Acyclic == \A s \in Steps : s \notin Upstream(s)

\* step s is dispatched by this transition: RUNNING is set and its runner called
Dispatched(s) == status[s] # "running" /\ status'[s] = "running"

NoDispatch == \A s \in Steps : ~Dispatched(s)

AllCompleted == \A s \in Steps : status[s] = "completed"

\* some runner call did not return success
SomeCallFailed == \E s \in Steps : outcome[s] \in {"fail", "raise", "timeout"}

\* C1: at the moment a step is dispatched, every id of its depends_on that
\* names a step of the workflow names a step in status COMPLETED
C1_DispatchAfterDeps ==
    [][\A s \in Steps :
          Dispatched(s) => \A d \in Deps(s) : status[d] = "completed"]_vars

\* a step that depends on two steps of the workflow is running
C1_Witness ==
    \E s \in Steps : status[s] = "running" /\ Cardinality(Deps(s)) = 2

StuckPass ==
    /\ pc = "loop"
    /\ \A s \in Steps :
          status[s] = "pending" => \E d \in Deps(s) : status[d] # "completed"
    /\ \E s \in Steps : status[s] = "pending"
    /\ \A s \in Steps : status[s] # "running"

\* C3: from a pass that finds PENDING steps but no ready and no RUNNING
\* step, the run ends with the workflow FAILED and the stuck message
C3_StuckTerminatesFailed ==
    StuckPass ~> (pc = "done" /\ wf_status = "failed" /\ wf_error_message = "stuck")

\* a run ended as stuck, with steps left PENDING behind a cycle
C3_Witness ==
    /\ pc = "done" /\ wf_error_message = "stuck" /\ wf_status = "failed"
    /\ \E s \in Steps : status[s] = "pending" /\ s \in Upstream(s)

\* C4 as stated: once a batch has completed with spend >= budget no step is
\* dispatched any more, and the run ends FAILED with the budget message
C4_NoDispatchAfterBudgetHit ==
    /\ [][over_at_batch_end => NoDispatch]_vars
    /\ [](pc = "done" /\ over_at_batch_end =>
             wf_status = "failed" /\ wf_error_message = "budget")

\* C5 as stated: under stop_on_failure, once a step whose runner raised is
\* FAILED no step is dispatched, and the run ends FAILED naming that step
C5_NoStepAfterRaise ==
    /\ [][(stop_on_failure /\ \E a \in Steps :
                outcome[a] = "raise" /\ status[a] = "failed") => NoDispatch]_vars
    /\ [](pc = "done" /\ stop_on_failure =>
             \A a \in Steps :
                 (outcome[a] = "raise" /\ \A b \in Steps \ {a} : outcome[b] # "raise")
                     => wf_status = "failed" /\ failed_step_id = a)

\* C6 as stated: under stop_on_failure, once a batch has ended with a step
\* FAILED (raised, reported failure, or timed out) no step is dispatched,
\* and the run ends with the workflow FAILED
C6_StopOnAnyFailure ==
    /\ [][(stop_on_failure /\ failed_at_batch_end) => NoDispatch]_vars
    /\ [](pc = "done" /\ stop_on_failure /\ failed_at_batch_end =>
             wf_status = "failed")

\* C7 as stated: when the run has ended with a step FAILED, the result's
\* success flag is false
C7_FailedStepMeansNoSuccess ==
    pc = "done" /\ (\E s \in Steps : status[s] = "failed") => ~result_success

\* the steps a raise keeps from running: the raising steps and the steps
\* downstream of one
HeldBack(s) ==
    \E a \in Upstream(s) \cup {s} : outcome[a] = "raise"

\* the run of C8: stop_on_failure off, acyclic graph, budget never reached,
\* every call that does not raise returns success
C8_Excluded ==
    \/ stop_on_failure
    \/ ~Acyclic
    \/ is_over_budget
    \/ \E s \in Steps : outcome[s] \in {"fail", "timeout"}

\* some runner call raised
SomeRaised == \E a \in Steps : outcome[a] = "raise"

\* the run has ended and every step not held back is COMPLETED
OthersCompleted ==
    pc = "done" /\ \A s \in Steps : ~HeldBack(s) => status[s] = "completed"

C9_AlwaysReturns == pc = "done" => exit = "returned"

\* C10 as stated: a step with retry_count = n > 0 that ends FAILED had its
\* runner invoked n + 1 times
C10_RetriesExhausted ==
    \A s \in Steps :
        (pc = "done" /\ retry_count[s] > 0 /\ status[s] = "failed")
            => invocations[s] = retry_count[s] + 1

\* a and b share a parallel_group and were both ready when the pass in
\* progress began
SameGroupReady(a, b) ==
    /\ a # b
    /\ {a, b} \subseteq ready_at_pass
    /\ parallel_group[a] # NoGroup
    /\ parallel_group[a] = parallel_group[b]

\* C11 as stated: of two steps of one parallel_group that were ready at the
\* start of the pass, neither is started after the other's call has ended
C11_Original ==
    [][\A a, b \in Steps :
          SameGroupReady(a, b) /\ Dispatched(b) => outcome[a] = "none"]_vars

\* C11 amended: the two steps are tasks of one gather: when either is
\* started, the gather in progress holds both of them
C11_SameBatch ==
    [][\A a, b \in Steps :
          SameGroupReady(a, b) /\ Dispatched(b) =>
              pc = "gather" /\ {a, b} \subseteq Range(group_steps)]_vars

\* two steps of one group, both ready at the start of the pass, are in
\* flight together
C11_Witness ==
    /\ pc = "gather"
    /\ \E a, b \in Steps : SameGroupReady(a, b) /\ {a, b} \subseteq inflight

\* C12 as stated: when the run has ended, every step whose runner call
\* raised is FAILED and its error_message is the exception text
C12_RaisedStepsFailed ==
    pc = "done" =>
        \A s \in Steps :
            outcome[s] = "raise" =>
                status[s] = "failed" /\ error_message[s] = ExcText([kind |-> "raise"])

\* C13: a gather is left only when every member's call has ended with an
\* outcome of its own, and while a call is in flight a step is dispatched
\* only if it and the calls in flight are members of the group gathered
C13_FanOutFanIn ==
    [][/\ (pc = "gather" /\ pc' # "gather") =>
              \A m \in Range(group_steps) : outcome[m] # "none" /\ m \notin inflight
       /\ \A s \in Steps :
              (Dispatched(s) /\ (inflight # {} \/ pc = "gather")) =>
                  pc = "gather" /\ (inflight \cup {s}) \subseteq Range(group_steps)]_vars

\* in one group a call raised or timed out and a sibling's call returned
\* success; a step outside the group is running after the fan-in
C13_Witness ==
    \E a, b, c \in Steps :
        /\ a # b /\ parallel_group[a] # NoGroup
        /\ parallel_group[a] = parallel_group[b]
        /\ outcome[a] \in {"raise", "timeout"}
        /\ outcome[b] = "ok" /\ status[b] = "completed"
        /\ parallel_group[c] # parallel_group[a] /\ status[c] = "running"

\* the ungrouped steps that were ready when the pass in progress began
ReadyUngrouped == {s \in ready_at_pass : parallel_group[s] = NoGroup}

\* how many of them come before s in workflow list order
RankUngrouped(s) == Cardinality({r \in ReadyUngrouped : r < s})

\* s is one of the first max_parallel_steps of them
WithinCap(s) == s \in ReadyUngrouped /\ RankUngrouped(s) < max_parallel_steps

\* C14: an ungrouped step is dispatched only as one of the first
\* max_parallel_steps ungrouped ready steps of the pass, with no call in
\* flight and after every earlier one of them has ended; the ungrouped ready
\* steps beyond the cap are PENDING for the rest of the pass
C14_SequentialWithinCap ==
    /\ [][\A s \in Steps :
             (parallel_group[s] = NoGroup /\ Dispatched(s)) =>
                 /\ WithinCap(s)
                 /\ inflight = {}
                 /\ \A r \in ReadyUngrouped :
                        r < s => status[r] \in {"completed", "failed"}]_vars
    /\ [](\A s \in ReadyUngrouped : ~WithinCap(s) => status[s] = "pending")

\* with a cap of 2 and more than 2 ungrouped ready steps, the second is in
\* flight after the first has ended and one beyond the cap is PENDING
C14_Witness ==
    /\ pc = "seq_await" /\ max_parallel_steps = 2
    /\ \E r \in inflight : RankUngrouped(r) = 1
    /\ \E s \in ReadyUngrouped : ~WithinCap(s) /\ status[s] = "pending"

\* C15: no transition takes a step whose status is RUNNING, COMPLETED or
\* FAILED back to PENDING
C15_NeverPendingAgain ==
    [][\A s \in Steps : status[s] # "pending" => status'[s] # "pending"]_vars

\* steps have left PENDING in each of the three ways: one is RUNNING, one
\* COMPLETED, one FAILED
C15_Witness ==
    \E a, b, c \in Steps :
        status[a] = "running" /\ status[b] = "completed" /\ status[c] = "failed"

\* C16 as stated: when the run has ended, every step whose runner call timed
\* out is FAILED and its error_message is the timeout message
C16_TimeoutMessageKept ==
    pc = "done" =>
        \A s \in Steps :
            outcome[s] = "timeout" =>
                status[s] = "failed" /\ error_message[s] = "timeout_msg"

\* C17 as stated: when a run under stop_on_failure has ended because a step
\* failed, workflow.error_message is that step's error_message
C17_WorkflowCarriesStepError ==
    (pc = "done" /\ stop_on_failure /\ failed_step_id # None) =>
        wf_error_message = error_message[failed_step_id]

\* C18 as stated: when a further execute_workflow call on a workflow that
\* had reached a terminal status has ended, workflow.status and every step's
\* status are what the first call left
C18_TerminalImmutable ==
    (calls >= 2 /\ pc = "done") =>
        wf_status = first_end.wf /\ status = first_end.steps

\* C19 as stated: when a step is dispatched with the input $A.result, the
\* resolved value is A's runner output only if A is COMPLETED at that moment
C19_ResultOnlyWhenCompleted ==
    [][\A a, b \in Steps :
          (Dispatched(b) /\ inputs[b] = Ref(IdText(a), "result")
                /\ resolved_inputs'[b] = Output(a))
              => status[a] = "completed"]_vars

\* the symbols of a "$" string between the "$" and the first "."
SourceOf(chars) ==
    SubSeq(chars, 2, (CHOOSE j \in 2..Len(chars) :
                         chars[j] = "." /\ \A k \in 2..(j - 1) : chars[k] # ".") - 1)

\* the four cases of C20: not a string; a string that does not begin with
\* "$"; fewer than two dot-separated parts after the "$"; a source that is
\* not "workflow" and is no step's id
PassThrough(v) ==
    \/ v.type # "str"
    \/ v.chars = <<>>
    \/ v.chars[1] # "$"
    \/ \A i \in 2..Len(v.chars) : v.chars[i] # "."
    \/ /\ SourceOf(v.chars) # <<"workflow">>
       /\ \A s \in Steps : SourceOf(v.chars) # <<IdText(s)>>

\* C20: wherever a step is dispatched, resolve_input called on the workflow
\* as it is then returns its argument in each of the four cases; and the
\* dispatch that resolves such an input writes nothing but the dispatched
\* step's status and its resolved input
C20_PassThroughUnchanged ==
    [][\A s \in Steps :
          Dispatched(s) =>
              /\ \A v \in InputValues : PassThrough(v) => resolve_input(v) = v
              /\ (inputs[s] # NoInput /\ PassThrough(inputs[s])) =>
                     /\ resolved_inputs'[s] = inputs[s]
                     /\ UNCHANGED <<cfg, wfv, resv, result, error_message, entries>>
                     /\ \A r \in Steps \ {s} :
                            status'[r] = status[r]
                                /\ resolved_inputs'[r] = resolved_inputs[r]]_vars

\* a step is running whose input, a reference to the result of a step that
\* does not exist, went into its task unresolved
C20_Witness ==
    \E s \in Steps :
        /\ status[s] = "running"
        /\ inputs[s] = Ref(IdText(NumSteps + 1), "result")
        /\ resolved_inputs[s] = inputs[s]

\* the steps C22 calls ready: PENDING, and every depends_on id that names a
\* step names a COMPLETED one
ReadySet ==
    {s \in Steps : status[s] = "pending" /\ \A d \in Deps(s) : status[d] = "completed"}

\* C22: where a pass calls get_ready_steps, the list returned holds exactly
\* the steps of ReadySet, each once, in workflow list order; and a pass that
\* finds ready steps has written no step field and no workflow field when
\* it has partitioned them
C22_ReadyStepsExact ==
    /\ [](pc = "loop" =>
             /\ Range(get_ready_steps) = ReadySet
             /\ \A i, j \in 1..Len(get_ready_steps) :
                    i < j => get_ready_steps[i] < get_ready_steps[j])
    /\ [][(pc = "loop" /\ get_ready_steps # <<>>) => UNCHANGED <<cfg, stepv, wfv>>]_vars

\* a pass finds two ready steps, one of them with a depends_on id that names
\* no step, and a PENDING step that is not ready
C22_Witness ==
    /\ pc = "loop"
    /\ Len(get_ready_steps) >= 2
    /\ \E s \in Range(get_ready_steps) : depends_on[s] \ Steps # {}
    /\ \E s \in Steps : status[s] = "pending" /\ s \notin Range(get_ready_steps)

\* the steps whose call ended by an exception (a raise or a timeout), in
\* dispatch order
FailedInOrder ==
    SelectSeq(dispatch_order, LAMBDA s : outcome[s] \in {"raise", "timeout"})

\* C26 as stated: when a run under stop_on_failure has ended and names a
\* failed step, the step named, by the workflow and by the result's error,
\* is the first in dispatch order of the steps whose call ended by an
\* exception
C26_FirstFailureNamed ==
    (pc = "done" /\ stop_on_failure /\ failed_step_id # None) =>
        /\ failed_step_id = Head(FailedInOrder)
        /\ result_error[1] = "step_failed" => result_error[2] = Head(FailedInOrder)


\* the arguments "$<source>.<key>" with one dot
WellFormed == {<<source, k>> : source \in {"workflow"} \cup {IdText(s) : s \in Steps},
                               k \in Keys}

\* what a well-formed reference stands for: the workflow's input when the
\* source is "workflow", otherwise the named step's attribute or output
Referent(source, k) ==
    IF source = "workflow"
    THEN IF k \in DOMAIN workflow_inputs THEN workflow_inputs[k] ELSE NoneValue
    ELSE LET step == CHOOSE s \in Steps : IdText(s) = source
             stored == FieldOf(outputs, step, EmptyMapping)
         IN  CASE k = "findings" -> FieldOf(findings, step, EmptyList)
               [] k = "change_plan" -> FieldOf(change_plan, step, NoneValue)
               [] k = "eval_result" -> FieldOf(eval_result, step, NoneValue)
               [] k = "result" -> result[step]
               [] OTHER -> IF k \in DOMAIN stored THEN stored[k] ELSE NoneValue

\* C21: for a reference "$source.key", resolve_input returns the workflow's
\* input of that key when the source is "workflow"; otherwise, when the
\* source names a step, it returns the step's findings, change_plan,
\* eval_result or result for the key of that name, and for any other key
\* what the step's outputs mapping holds under the key (None when absent)
C21_ReferenceResolved ==
    \A r \in WellFormed :
        argument = Ref(r[1], r[2]) => returned = Referent(r[1], r[2])

\* C21 witness: a reference to a step by a key that is none of the four
\* attributes has returned the value stored in the step's outputs
C21_Witness ==
    /\ argument = Ref(IdText(1), "nope")
    /\ IdText(1) # "workflow"
    /\ 1 \in DOMAIN outputs
    /\ "nope" \in DOMAIN outputs[1]
    /\ returned = outputs[1]["nope"]
    /\ returned # NoneValue

(* ======================= properties of the ledger ====================== *)
\* the alerts the transition produces
NewAlerts == SubSeq(alert_log', Len(alert_log) + 1, Len(alert_log'))

\* C23: over record calls, also when a new tracker built on the same
\* persist_path carries on, every threshold produces at most one alert, and
\* no record call fires a threshold that is already in the triggered set
C23_ThresholdFiresOnce ==
    /\ [](\A th \in Range(alert_thresholds) :
            Cardinality({i \in 1..Len(alert_log) : alert_log[i] = th}) <= 1)
    /\ [][\A i \in 1..Len(NewAlerts) : NewAlerts[i] \notin triggered_thresholds]_vars

\* C23 witness: a tracker that loaded a triggered threshold from the file
\* has fired a later threshold of its own and not the loaded one
C23_Witness ==
    /\ persist_path
    /\ loaded > 0
    /\ alerts # <<>>
    /\ Len(alert_log) > Len(alerts)
    /\ \E th \in triggered_thresholds : th \notin Range(alerts)

\* C24: the remaining budget is max(0, budget - total), never negative; the
\* tracker is over budget exactly when total >= budget; and for a budget
\* that is not negative, exactly when the remaining budget is 0
C24_RemainingBudgetFloored ==
    LET total == TotalOf(entries)
        left == FloatSub(budget_usd, total)
    IN  /\ get_remaining_budget >= 0
        /\ get_remaining_budget >= left
        /\ get_remaining_budget \in {0, left}
        /\ is_over_budget <=> total >= budget_usd
        /\ budget_usd >= 0 => (is_over_budget <=> get_remaining_budget = 0)

\* C24 witness: spend has passed a positive budget and nothing remains
C24_Witness ==
    /\ budget_usd > 0
    /\ Len(entries) >= 2
    /\ TotalOf(entries) > budget_usd
    /\ get_remaining_budget = 0
    /\ is_over_budget

\* what a tracker constructed now on the path would hold is what this one holds
SameWhenLoaded ==
    /\ loaded_entries = entries
    /\ loaded_thresholds = triggered_thresholds

\* C25 as stated: after any record calls on a tracker with a persist_path, a
\* new tracker on the path has the same entries and triggered thresholds
C25_RoundTrip == persist_path => SameWhenLoaded

\* C25: after record calls whose metadata holds only what JSON gives back
\* unchanged, a new tracker on the path has the same entries and the same
\* triggered thresholds
C25_RoundTripJsonExact ==
    (persist_path /\ \A i \in 1..Len(entries) : entries[i].metadata \in JsonExact)
        => SameWhenLoaded

\* C25 witness: a tracker constructed from the file has recorded again, with
\* metadata among its entries and thresholds triggered, and the file gives
\* all of it back
C25_Witness ==
    /\ persist_path
    /\ persisted.exists
    /\ loaded > 0
    /\ record_calls > 0
    /\ triggered_thresholds # {}
    /\ \E i \in 1..Len(entries) : entries[i].metadata # EmptyMapping
    /\ \A i \in 1..Len(entries) : entries[i].metadata \in JsonExact
    /\ SameWhenLoaded

\* step s reaches COMPLETED by this transition
Completes(s) == status[s] # "completed" /\ status'[s] = "completed"

\* C27: when a step becomes COMPLETED one entry priced with the runner's
\* model is appended in the same transition, while its batch is under way;
\* a call that raises or times out leaves the ledger as it was; so whenever
\* the budget is checked every completed step's entry is in the ledger
C27_EntryPerCompletedStep ==
    /\ [][\A s \in Steps :
            /\ Completes(s) =>
                 /\ pc \in {"gather", "seq_await"}
                 /\ Len(entries') = Len(entries) + 1
                 /\ SubSeq(entries', 1, Len(entries)) = entries
                 /\ entries'[Len(entries')].model = AgentModel
                 /\ entries'[Len(entries')].cost_usd =
                        calculate_cost(AgentModel,
                                       entries'[Len(entries')].input_tokens,
                                       entries'[Len(entries')].output_tokens)
            /\ (outcome[s] = "none" /\ outcome'[s] \in {"raise", "timeout"})
                 => entries' = entries]_vars
    /\ [](Cardinality({s \in Steps : status[s] = "completed"}) <= Len(entries))
    /\ [][Len(entries') <= Len(entries) + 1]_vars

\* C27 witness: the run is over with two steps completed, one call raised,
\* and two entries in the ledger
C27_Witness ==
    /\ pc = "done"
    /\ Cardinality({s \in Steps : status[s] = "completed"}) = 2
    /\ \E s \in Steps : outcome[s] = "raise"
    /\ \A s \in Steps : outcome[s] \in {"ok", "raise"}
    /\ Len(entries) = 2
    /\ get_total_cost > 0

\* |a - b|
Distance(a, b) == IF a >= b THEN a - b ELSE b - a

\* the unit in the last place of the larger of two amounts
LargerUlp(a, b) == IF a >= b THEN Ulp(a) ELSE Ulp(b)

\* what get_summary reports of the entries and of the total
SummaryCounts ==
    /\ get_summary.entry_count = record_calls
    /\ get_summary.total_cost_usd = Sum([i \in 1..Len(entries) |-> entries[i].cost_usd])

\* C28 as stated: on a fresh tracker, entry_count is the number of record
\* calls, total_cost_usd the sum of the entries' costs, and the by_model
\* values sum to total_cost_usd
C28_SummaryTotals ==
    loaded = 0 =>
        /\ SummaryCounts
        /\ SumOfValues(entries, get_summary.by_model) = get_summary.total_cost_usd

\* C28: on a fresh tracker, entry_count is the number of record calls,
\* total_cost_usd the sum of the entries' costs taken in order, and the sum
\* of the by_model values is within float rounding of total_cost_usd: one
\* unit in the last place of the larger of the two for each entry
C28_SummaryTotalsRounded ==
    loaded = 0 =>
        /\ SummaryCounts
        /\ Distance(SumOfValues(entries, get_summary.by_model),
                    get_summary.total_cost_usd)
              <= Len(entries) * LargerUlp(SumOfValues(entries, get_summary.by_model),
                                          get_summary.total_cost_usd)

\* C28 witness: three calls for two models, and the by_model values sum to
\* another float than the total
C28_Witness ==
    /\ loaded = 0
    /\ record_calls = 3
    /\ Cardinality(DOMAIN get_summary.by_model) = 2
    /\ SumOfValues(entries, get_summary.by_model) # get_summary.total_cost_usd

(* =================== properties of the orchestrator ==================== *)
\* spawn has been called for subtask i
Executed(i) == task_state[i] \in SpawnEnds \cup {"running"}

\* no more than max_concurrent executions are in flight
WithinLimit == Cardinality(InFlight) <= max_concurrent

\* the list returned has one result for each subtask, at the subtask's
\* position, failed for a subtask that raised and successful only for one
\* whose agent reported success
ResultsInOrder ==
    /\ Len(final_results) = Len(batch)
    /\ \A k \in 1..Len(batch) :
          /\ final_results[k].task_id = batch[k]
          /\ final_results[k].success <=> task_state[batch[k]] = "success"

\* spawn_parallel returns, every subtask having been executed
AllExecutedAndReturned ==
    <>(spc = "returned" /\ \A i \in Range(batch) : Executed(i))

\* C29 as stated: never more than max_concurrent executions in flight, every
\* subtask is eventually executed, and the list returned has one result per
\* subtask in the order of the input
C29_BoundedAndComplete ==
    /\ [](spc # "idle" => WithinLimit)
    /\ [](spc = "gather" => AllExecutedAndReturned)
    /\ [](spc = "returned" => ResultsInOrder)

\* C29: the same for max_concurrent >= 1 (with 0 no subtask is ever executed)
C29_BoundedAndCompleteFromOne ==
    /\ [](spc # "idle" => WithinLimit)
    /\ []((spc = "gather" /\ max_concurrent >= 1) => AllExecutedAndReturned)
    /\ [](spc = "returned" => ResultsInOrder)

\* C29 witness: three subtasks under a limit of two have returned, the first
\* raised, the second succeeded, and each result is at its place
C29_Witness ==
    /\ spc = "returned"
    /\ max_concurrent = 2
    /\ Len(batch) = NumTasks
    /\ task_state[1] = "raised"
    /\ task_state[2] = "success"
    /\ task_state[3] = "caught"
    /\ final_results[1] = [task_id |-> 1, success |-> FALSE]
    /\ final_results[2] = [task_id |-> 2, success |-> TRUE]

\* subtask i is spawned by this transition
Spawns(i) == i \in DOMAIN spawned /\ spawned'[i] = spawned[i] + 1

\* C30: when a subtask is spawned, every id the dependencies map lists for
\* it is a subtask that has finished executing and whose result is in the
\* collected results
C30_SpawnAfterDependencies ==
    [][\A i \in Tasks :
          Spawns(i) =>
              \A d \in dependencies[i] :
                  /\ d \in Tasks
                  /\ Ended(d)
                  /\ d \in completed
                  /\ \E k \in 1..Len(results) : results[k].task_id = d]_vars

\* C30 witness: the third subtask, which lists the second, which lists the
\* first, is running, and the results of both are collected
C30_Witness ==
    /\ spc = "gather"
    /\ dependencies[2] = {1}
    /\ dependencies[3] = {2}
    /\ task_state[3] = "running"
    /\ Len(results) = 2
    /\ completed = {1, 2}

(* ------------------------------- C31 ----------------------------------- *)
\* C31: spawn_with_dependencies spawns a subtask only when every one of its
\* dependencies has a result with success = true; a subtask that depends on
\* a subtask whose result is a failure is not spawned
C31_FailedDependencyBlocks ==
    [][\A i \in Tasks :
          Spawns(i) =>
              \A d \in dependencies[i] :
                  \E k \in 1..Len(results) :
                      results[k].task_id = d /\ results[k].success]_vars

(* ------------------------------- C32 ----------------------------------- *)
\* C32: for every max_parallel_steps >= 0 the scheduling loop of
\* execute_workflow exits after finitely many passes, and every pass that
\* goes back to the head of the loop has moved at least one of the steps it
\* found ready out of PENDING
C32_LoopExits ==
    /\ <>(pc = "done")
    /\ [][(pc = "seq" /\ pc' = "loop") =>
              \E s \in ready_at_pass : status[s] # "pending"]_vars

C34_EndsCompletedOrFailed ==
    pc = "done" =>
        /\ wf_status \in {"completed", "failed"}
        /\ (wf_status = "completed") <=> result_success

\* a run has ended COMPLETED with success true after every step was called
\* once and completed
C34_Witness ==
    /\ pc = "done"
    /\ wf_status = "completed"
    /\ result_success
    /\ \A s \in Steps : invocations[s] = 1 /\ status[s] = "completed"

(* ------------------------------- C35 ----------------------------------- *)
\* C35: when the scheduling run of execute_workflow has ended, in whatever
\* workflow status, no step has status RUNNING: every dispatched step has
\* been moved to COMPLETED or FAILED
C35_NoStepLeftRunning ==
    pc = "done" =>
        \A s \in Steps :
            /\ status[s] # "running"
            /\ invocations[s] > 0 => status[s] \in {"completed", "failed"}

(* ------------------------------- C36 ----------------------------------- *)
\* C36: after every record call, for every budget >= 0 and every configured
\* threshold t, t is in the triggered set exactly when the cumulative spend
\* is at least t x budget, and whenever is_over_budget() is true the 100%
\* alert has fired
C36_TriggeredIffReached ==
    (record_calls > 0 /\ budget_usd >= 0) =>
        /\ \A th \in Range(alert_thresholds) :
              th \in triggered_thresholds <=> get_total_cost * 100 >= th * budget_usd
        /\ is_over_budget => 100 \in triggered_thresholds

(* ------------------------- Forge.run, the actions ----------------------- *)
\* the budgets of the Forge's settings tried: none, one step's cost, two
\* steps' cost, and more than any run spends
ForgeBudgets == {0, BudgetMicro, 2 * BudgetMicro, 8 * BudgetMicro}

\* ALL_AGENTS is a dictionary of the package that its users can change: as
\* built, or with one of the names taken out
Registries == {AgentNames} \cup {AgentNames \ {name} : name \in AgentNames}

\* how agent.execute ends for a step: a result that reports success or
\* failure, with tokens_used as it stands after lines 160-161, or an exception
RunOutcomes == [kind : {"ok", "fail", "raise"}, tokens : {0, TokensUsed}]

\* definition.model of the agents (specialists.py:13, actions.py:13)
definition_model(name) ==
    IF name \in {"backend_analyzer", "security_analyzer"}
    THEN "claude-sonnet-4-20250514"
    ELSE "claude-sonnet-4"

\* a Forge just constructed (line 52: a CostTracker with the settings'
\* budget and no persist_path)
InitForge ==
    /\ depends_on = [s \in Steps |-> {}]
    /\ parallel_group = [s \in Steps |-> NoGroup]
    /\ retry_count = [s \in Steps |-> 0]
    /\ inputs = [s \in Steps |-> NoInput]
    /\ max_parallel_steps = MaxCap
    /\ stop_on_failure = FALSE
    /\ StepDefaults
    /\ agents \in Registries
    /\ budget_usd \in ForgeBudgets
    /\ persist_path = FALSE
    /\ Fresh

\* lines 130-140: run(goal, target) decomposes the goal and makes the
\* WorkflowResult
Run(goal) ==
    /\ rpc = "idle"
    /\ run_steps' = _decompose_goal(goal)
    /\ workflow_result' = [NoResult EXCEPT !.total_steps = Len(_decompose_goal(goal))]
    /\ position' = 1
    /\ over_after' = <<>>
    /\ rpc' = "loop"
    /\ UNCHANGED <<agents, cfg, stepv, wfv, resv, entries, ledger, ctl, obs,
                   argument, returned, subv>>

\* lines 142-158: the for loop takes the next step, or is exhausted and run
\* returns (line 185); get_agent finds the agent, and agent.execute is
\* awaited, or does not, and run returns with "Agent not found"
NextStep ==
    /\ rpc = "loop"
    /\ IF position > Len(run_steps)
       THEN /\ rpc' = "returned"
            /\ UNCHANGED workflow_result
       ELSE IF run_steps[position] \notin agents
       THEN /\ workflow_result' = [workflow_result EXCEPT !.success = FALSE,
                                                          !.error = "agent_not_found"]
            /\ rpc' = "returned"
       ELSE /\ rpc' = "await"
            /\ UNCHANGED workflow_result
    /\ UNCHANGED <<agents, run_steps, position, over_after, cfg, stepv, wfv, resv,
                   entries, ledger, ctl, obs, argument, returned, subv>>

\* lines 174-183 without the budget test
run_error_ignoring_budget(success, over) ==
    IF ~success THEN "result_error" ELSE "none"

\* lines 174-183: what stops the loop after a step: the result's error,
\* "Budget exceeded", or nothing
run_error(success, over) ==
    IF ~success THEN "result_error"
    ELSE IF over THEN "budget"
    ELSE "none"

\* lines 158-183: agent.execute raises, which leaves run, or returns a
\* result: the result is stored and counted, its cost recorded in the
\* ledger, and the loop goes on or breaks.  total_cost_usd and total_tokens
\* of the WorkflowResult are sums that nothing reads
ExecuteEnds(o) ==
    /\ rpc = "await"
    /\ IF o.kind = "raise"
       THEN /\ rpc' = "raised"
            /\ UNCHANGED <<workflow_result, position, over_after, entries, ledger>>
       ELSE LET name == run_steps[position]
                es == Append(entries,
                             CostEntry(definition_model(name), o.tokens \div 2,
                                       o.tokens \div 2, EmptyMapping))
                over == TotalOf(es) >= budget_usd
                error == run_error(o.kind = "ok", over)
            IN  /\ Recorded(es)
                /\ over_after' = Append(over_after, over)
                /\ workflow_result' =
                      [workflow_result EXCEPT
                          !.results = Append(@, [agent_name |-> name,
                                                 success |-> o.kind = "ok"]),
                          !.steps_completed = @ + 1,
                          !.success = (error = "none"),
                          !.error = error]
                /\ position' = IF error = "none" THEN position + 1 ELSE position
                /\ rpc' = IF error = "none" THEN "loop" ELSE "returned"
    /\ UNCHANGED <<agents, run_steps, cfg, stepv, wfv, resv, ctl, obs, argument,
                   returned, subv>>

NextForge ==
    \/ \E goal \in SUBSET AgentNames : Run(goal)
    \/ NextStep
    \/ \E o \in RunOutcomes : ExecuteEnds(o)

SpecForge == InitForge /\ [][NextForge]_vars

(* ------------------------------- C37 ----------------------------------- *)
\* the steps executed so far are the first steps of the list, in order
ExecutedInOrder ==
    /\ workflow_result.steps_completed = Len(workflow_result.results)
    /\ Len(workflow_result.results) <= Len(run_steps)
    /\ \A k \in 1..Len(workflow_result.results) :
          workflow_result.results[k].agent_name = run_steps[k]

\* every step executed so far had a successful result and left the ledger
\* under budget
AllWentWell ==
    /\ \A k \in 1..Len(workflow_result.results) : workflow_result.results[k].success
    /\ \A k \in 1..Len(over_after) : ~over_after[k]

\* C37: Forge.run executes the steps one at a time in order; a step is
\* executed only while every earlier step was executed with a successful
\* result and the ledger under budget after it and its own agent exists; and
\* run returns success = true exactly when every step was executed, each
\* with a successful result and the ledger under budget after it, so that
\* success = true implies steps_completed = total_steps
C37_RunSucceedsIffAllSteps ==
    /\ rpc # "idle" => ExecutedInOrder /\ Len(over_after) = workflow_result.steps_completed
    /\ rpc = "await" =>
          /\ AllWentWell
          /\ workflow_result.steps_completed = position - 1
          /\ run_steps[position] \in agents
    /\ rpc = "returned" =>
          /\ workflow_result.success <=>
                /\ workflow_result.steps_completed = workflow_result.total_steps
                /\ AllWentWell
          /\ workflow_result.success =>
                workflow_result.steps_completed = workflow_result.total_steps

\* C37 witness: a run of three steps has returned success = true, and so has
\* executed all three
C37_Witness ==
    /\ rpc = "returned"
    /\ workflow_result.success
    /\ workflow_result.total_steps = 3
    /\ workflow_result.steps_completed = 3
    /\ entries # <<>>

(* ------------------------------- C38 ----------------------------------- *)
\* every spawn call ends, and the loop of spawn_with_dependencies goes on
\* when it can
FairDependencies == SpecDependencies /\ WF_vars(NextDependencies)

\* the subtasks whose listed ids are all in S
DependOnlyOn(S) == {i \in Tasks : dependencies[i] \subseteq S}

\* S grown n times by the subtasks that depend only on it
RECURSIVE Grown(_, _)
Grown(S, n) == IF n = 0 THEN S ELSE Grown(S \cup DependOnlyOn(S), n - 1)

\* the subtasks neither on nor behind a cycle or an id of no subtask
Unblocked == Grown({}, NumTasks)

\* C38: spawn_with_dependencies terminates for every dependency map, cycles
\* and ids of no subtask included; it spawns each subtask at most once; and
\* a subtask on or behind a cycle or an unknown id is never spawned and has
\* no entry in results
C38_TerminatesAndSkipsBlocked ==
    /\ <>(spc = "done")
    /\ [](spc # "idle" =>
            \A i \in Tasks :
                /\ spawned[i] <= 1
                /\ i \notin Unblocked =>
                      /\ spawned[i] = 0
                      /\ \A k \in 1..Len(results) : results[k].task_id # i)

\* C38 witness: the call has returned with subtask 1 spawned once and in
\* results, subtasks 2 and 3 on a cycle, 3 also listing an id of no subtask
C38_Witness ==
    /\ spc = "done"
    /\ dependencies[1] = {}
    /\ dependencies[2] = {3}
    /\ dependencies[3] = {2, NumTasks + 1}
    /\ spawned = [i \in Tasks |-> IF i = 1 THEN 1 ELSE 0]
    /\ Len(results) = 1
    /\ results[1].task_id = 1

====
